---- MODULE Spec2Model ----
(***************************************************************************)
(* PointsWithLabels: the scatterplot label layout, the collision pass and  *)
(* the pointer interaction of src/README.md (PointsWithLabels.tsx).        *)
(*                                                                         *)
(* Lengths are fixed-point, in hundredths of a pixel ("cpx"); font sizes   *)
(* and priorities use the same scale.  Pixel positions of values are       *)
(* whole pixels (Math.floor), so 100 * px.                                 *)
(***************************************************************************)
EXTENDS Integers, Sequences, FiniteSets, TLC

VARIABLES
    data,            \* props.data: the input series list
    propsHoverKeys,  \* props.hoverKeys
    focusKeys,       \* props.focusKeys
    hoverKey,        \* @observable hoverKey
    rafQueue,        \* callbacks handed to requestAnimationFrame, not yet run
    frame,           \* callbacks of the animation frame being run, still to run
    invoked,         \* external callbacks invoked by the latest step
    received,        \* pointer events scheduled since the last frame began
    frameEvents,     \* pointer events whose callbacks the current/last frame took
    hoverWrites,     \* assignments to hoverKey made by the current/last frame
    pass,            \* position inside one recomputation of renderData
    labels,          \* the flattened label list (allLabels) of that recomputation
    cursor           \* iterations of the outer loop of the collision pass done so far

vars == <<data, propsHoverKeys, focusKeys, hoverKey, rafQueue, frame, invoked,
          received, frameEvents, hoverWrites, pass, labels, cursor>>

(***************************************************************************)
(* Bounds of the model                                                     *)
(***************************************************************************)
MaxValues == 3    \* values per series
MaxPending == 2   \* callbacks waiting for the next animation frame

Null == "null"

(***************************************************************************)
(* Arithmetic helpers                                                      *)
(***************************************************************************)
Abs(n) == IF n < 0 THEN -n ELSE n

Sign(n) == IF n < 0 THEN -1 ELSE IF n > 0 THEN 1 ELSE 0

\* n / d rounded toward zero (the fixed-point image of a float division)
Quot(n, d) == Sign(n) * Sign(d) * (Abs(n) \div Abs(d))

RECURSIVE SqrtSearch(_, _, _)
SqrtSearch(n, lo, hi) ==
    IF lo >= hi THEN lo
    ELSE LET mid == (lo + hi + 1) \div 2
         IN  IF mid * mid <= n THEN SqrtSearch(n, mid, hi)
             ELSE SqrtSearch(n, lo, mid - 1)

\* floor of the square root (Math.sqrt on the fixed-point scale)
ISqrt(n) == SqrtSearch(n, 0, 46340)

\* a sequence given by its elements, each computed once (_.map builds an array)
AsList(f) == f \o <<>>

\* the indices of keys in ascending key order, ties in index order:
\* the permutation a stable sort (_.sortBy) applies
SortedIndices(keys) ==
    LET n == Len(keys)
        rank(j) == Cardinality({k \in 1..n :
                       keys[k] < keys[j] \/ (keys[k] = keys[j] /\ k < j)}) + 1
    IN  AsList([i \in 1..n |-> CHOOSE j \in 1..n : rank(j) = i])

\* _.sortBy(seq, iteratee) with keys[i] = iteratee(seq[i])
SortBy(seq, keys) ==
    LET perm == SortedIndices(keys)
    IN  AsList([i \in 1..Len(seq) |-> seq[perm[i]]])

RECURSIVE Flatten(_)
Flatten(ss) == IF ss = <<>> THEN <<>> ELSE Head(ss) \o Flatten(Tail(ss))

(***************************************************************************)
(* Vector2 (./Vector2)                                                     *)
(***************************************************************************)
Vec(x, y) == [x |-> x, y |-> y]

VecZero == Vec(0, 0)

\* Vector2.up: screen coordinates, y grows downward
VecUp == Vec(0, -100)

VecAdd(a, b) == Vec(a.x + b.x, a.y + b.y)

VecSubtract(a, b) == Vec(a.x - b.x, a.y - b.y)

Magnitude(v) == ISqrt(v.x * v.x + v.y * v.y)

\* v.normalize().times(k), k in cpx; the zero vector normalizes to itself
NormalizeTimes(v, k) ==
    LET m == Magnitude(v)
    IN  IF m = 0 THEN VecZero ELSE Vec(Quot(v.x * k, m), Quot(v.y * k, m))

\* v.normals(): the two perpendiculars
Normals(v) == << Vec(-v.y, v.x), Vec(v.y, -v.x) >>

Distance(a, b) == Magnitude(VecSubtract(a, b))

(***************************************************************************)
(* Bounds (./Bounds)                                                       *)
(***************************************************************************)
Rect(x, y, w, h) == [x |-> x, y |-> y, width |-> w, height |-> h]

Left(b) == b.x

Right(b) == b.x + b.width

Top(b) == b.y

Bottom(b) == b.y + b.height

\* Bounds.intersects: closed rectangles, touching edges intersect
Intersects(r1, r2) ==
    ~ (Left(r2) > Right(r1) \/ Right(r2) < Left(r1)
       \/ Top(r2) > Bottom(r1) \/ Bottom(r2) < Top(r1))

\* Bounds.forText: the measured box of str at (x, y); a glyph is half as wide
\* as the font is high
ForText(str, x, y, fontSize) == Rect(x, y, Len(str) * (fontSize \div 2), fontSize)

(***************************************************************************)
(* Props other than the series list and the key sets                       *)
(***************************************************************************)
\* props.bounds: the plot rectangle, 80 x 50 pixels
bounds == Rect(0, 0, 8000, 5000)

\* the data domains of props.xScale and props.yScale, and props.sizeDomain
xDomain == <<0, 40>>

yDomain == <<0, 25>>

sizeDomain == <<1, 4>>

\* bounds.xRange() and bounds.yRange(): the y axis points up
xRange == <<Left(bounds), Right(bounds)>>

yRange == <<Bottom(bounds), Top(bounds)>>

\* Math.floor(scale.place(v)) for a linear AxisScale, as a whole pixel in cpx
FloorPlace(domain, range, v) ==
    100 * ((range[1] * (domain[2] - domain[1]) + (v - domain[1]) * (range[2] - range[1]))
              \div (100 * (domain[2] - domain[1])))

\* d3.scaleLinear().range([lo, hi]).domain(sizeDomain), not clamped
ScaleLinear(lo, hi, s) ==
    lo + Quot((hi - lo) * (s - sizeDomain[1]), sizeDomain[2] - sizeDomain[1])

\* sizeScale: the marker area, in hundredths of a square pixel
sizeScale(s) == ScaleLinear(1000, 100000, s)

\* fontScale: the font size of a series, in cpx
fontScale(s) == ScaleLinear(1000, 1300, s)

\* `size || 1`: an absent (or zero) size is 1
OrOne(s) == IF s = 0 THEN 1 ELSE s

\* Math.sqrt(area / Math.PI), in cpx (pi as 355/113)
Radius(area) == ISqrt((area * 11300) \div 355)

(***************************************************************************)
(* Computed properties of the component                                    *)
(***************************************************************************)
\* props.hoverKeys.concat(this.hoverKey ? [this.hoverKey] : [])
hoverKeys == propsHoverKeys \cup (IF hoverKey # Null THEN {hoverKey} ELSE {})

isLayerMode == focusKeys # {} \/ hoverKeys # {}

isConnected == \E i \in 1..Len(data) : Len(data[i].values) > 1

isSubtleForeground ==
    Cardinality(focusKeys) > 1 /\ \E i \in 1..Len(data) : Len(data[i].values) > 2

\* one value of a render series
RenderValue(d, v) ==
    [position |-> Vec(FloorPlace(xDomain, xRange, v.x), FloorPlace(yDomain, yRange, v.y)),
     size     |-> Radius(sizeScale(OrOne(v.size))),
     fontSize |-> fontScale(OrOne(d.size)),
     time     |-> v.time]

\* one series of initialRenderData, before the sort
InitialSeries(d) ==
    LET values == AsList([k \in 1..Len(d.values) |-> RenderValue(d, d.values[k])])
    IN  [key |-> d.key, size |-> values[Len(values)].size, values |-> values,
         text |-> d.label, offsetVector |-> VecZero]

initialRenderData ==
    LET mapped == AsList([i \in 1..Len(data) |-> InitialSeries(data[i])])
    IN  SortBy(mapped, AsList([i \in 1..Len(mapped) |-> mapped[i].size]))

\* a sort that forgets the minus sign: smallest first
RenderKeyAsc(d) == d.size

\* the iteratee of the sort in renderData
RenderKeyDesc(d) == -d.size

\* _.sortBy(initialRenderData, d => -d.size)
RenderOrder ==
    LET ird == initialRenderData
    IN  SortBy(ird, AsList([i \in 1..Len(ird) |-> RenderKeyDesc(ird[i])]))

\* the hover and focus flags, and the size of a hovered series
WithFlags(series) ==
    LET isHover == series.key \in hoverKeys
        isFocus == series.key \in focusKeys
    IN  [key |-> series.key, text |-> series.text, values |-> series.values,
         isHover |-> isHover, isFocus |-> isFocus,
         isForeground |-> (isHover \/ isFocus),
         size |-> IF isHover THEN series.size + 100 ELSE series.size,
         offsetVector |-> series.offsetVector]

(***************************************************************************)
(* Label synthesis.  A label refers to its series by the series' position  *)
(* in the render list; an absent flag (isStart, isMid, isEnd, isHidden) is *)
(* FALSE.                                                                  *)
(***************************************************************************)
Label(text, fontSize, pos, b, si, kind) ==
    [text |-> text, fontSize |-> fontSize, pos |-> pos, bounds |-> b, series |-> si,
     isStart |-> (kind = "start"), isMid |-> (kind = "mid"), isEnd |-> (kind = "end"),
     isHidden |-> FALSE]

\* the font size of a start or mid label
YearFontSize(series) ==
    IF series.isForeground THEN (IF isSubtleForeground THEN 800 ELSE 900) ELSE 700

\* the box of a year label at pos, nudged off its anchor
YearBounds(text, pos, anchor, fontSize) ==
    LET b0 == ForText(text, pos.x, pos.y, fontSize)
        b1 == IF pos.x < anchor.x
              THEN Rect(b0.x - b0.width + 200, b0.y, b0.width, b0.height) ELSE b0
    IN  IF pos.y > anchor.y
        THEN Rect(b1.x, b1.y + b1.height \div 2, b1.width, b1.height) ELSE b1

\* a guard that forgets the foreground test
StartLabelAbsentSingleOnly(series) == Len(series.values) <= 1

\* the guard of makeStartLabel
StartLabelAbsent(series) == ~series.isForeground \/ Len(series.values) <= 1

\* makeStartLabel: <<>> is undefined
makeStartLabel(series, si) ==
    IF StartLabelAbsent(series) THEN <<>>
    ELSE LET fontSize == YearFontSize(series)
             firstValue == series.values[1]
             nextValue == series.values[2]
             nextSegment == VecSubtract(nextValue.position, firstValue.position)
             pos == VecSubtract(firstValue.position, NormalizeTimes(nextSegment, 500))
             text == ToString(firstValue.time.y)
         IN  << Label(text, fontSize, firstValue.position,
                      YearBounds(text, pos, firstValue.position, fontSize), si, "start") >>

\* a guard that forgets subtle-foreground mode
MidLabelsAbsentNoSubtle(series) == ~series.isForeground \/ Len(series.values) <= 1

\* the guard of makeMidLabels
MidLabelsAbsent(series) ==
    \/ ~series.isForeground
    \/ Len(series.values) <= 1
    \/ (~series.isHover /\ isSubtleForeground)

\* the position of the label of the value at index i (from 0) of
\* values.slice(1, -1); series.values[j] of the source is values[j + 1] here
MidLabelPos(series, i) ==
    LET v == series.values[i + 2]
        hasPrev == i > 0
        nextPos == series.values[i + 2].position
        nextSegment == VecSubtract(nextPos, v.position)
    IN  IF hasPrev
        THEN LET prevPos == series.values[i].position
                 prevSegment == VecSubtract(v.position, prevPos)
                 normals == Normals(NormalizeTimes(VecAdd(prevSegment, nextSegment), 500))
                 spots == AsList([n \in 1..2 |-> VecAdd(v.position, normals[n])])
                 keys == AsList([n \in 1..2 |->
                             -(Distance(spots[n], prevPos) + Distance(spots[n], nextPos))])
             IN  SortBy(spots, keys)[1]
        ELSE VecSubtract(v.position, NormalizeTimes(nextSegment, 500))

\* makeMidLabels: one label per element of values.slice(1, -1)
makeMidLabels(series, si) ==
    IF MidLabelsAbsent(series) THEN <<>>
    ELSE LET fontSize == YearFontSize(series)
             n == Len(series.values)
         IN  AsList([k \in 1..(IF n >= 2 THEN n - 2 ELSE 0) |->
                LET v == series.values[k + 1]
                    pos == MidLabelPos(series, k - 1)
                    text == ToString(v.time.y)
                IN  Label(text, fontSize, v.position,
                          YearBounds(text, pos, v.position, fontSize), si, "mid")])

\* series.offsetVector as makeEndLabel sets it
EndOffsetVector(series) ==
    LET n == Len(series.values)
    IN  IF n > 1
        THEN VecSubtract(series.values[n].position, series.values[n - 1].position)
        ELSE VecUp

\* the emphasis of the end label, in tenths
EndFontFactor(series) ==
    IF series.isForeground THEN (IF isSubtleForeground THEN 12 ELSE 13) ELSE 11

makeEndLabel(series, si) ==
    LET n == Len(series.values)
        lastValue == series.values[n]
        lastPos == lastValue.position
        fontSize == (lastValue.fontSize * EndFontFactor(series)) \div 10
        offsetVector == EndOffsetVector(series)
        labelPos == VecAdd(lastPos,
                       NormalizeTimes(offsetVector,
                                      IF n = 1 THEN lastValue.size + 100 ELSE 500))
        b0 == ForText(series.text, labelPos.x, labelPos.y, fontSize)
        b1 == IF labelPos.x < lastPos.x
              THEN Rect(b0.x - b0.width, b0.y, b0.width, b0.height) ELSE b0
        b2 == IF labelPos.y > lastPos.y
              THEN Rect(b1.x, b1.y + b1.height \div 2, b1.width, b1.height) ELSE b1
    IN  Label(series.text, fontSize, labelPos, b2, si, "end")

\* [series.startLabel].concat(series.midLabels).concat([series.endLabel]),
\* filtered of undefined
SeriesLabels(series, si) ==
    makeStartLabel(series, si) \o makeMidLabels(series, si) \o <<makeEndLabel(series, si)>>

\* the render list after the flag pass and with offsetVector set
FlaggedSeries ==
    LET ro == RenderOrder
    IN  AsList([i \in 1..Len(ro) |->
            LET f == WithFlags(ro[i])
            IN  [f EXCEPT !.offsetVector = EndOffsetVector(f)]])

\* allLabels: _.flatten(_.map(renderData, series => series.allLabels))
SynthesizedLabels ==
    LET rs == FlaggedSeries
    IN  Flatten(AsList([i \in 1..Len(rs) |-> SeriesLabels(rs[i], i)]))

(***************************************************************************)
(* The bounds clamp and the collision pass of renderData                   *)
(***************************************************************************)
\* the horizontal half of the clamp: the new bounds.x
ClampX(b) ==
    IF Left(b) < Left(bounds) - 100 THEN b.x + b.width
    ELSE IF Right(b) > Right(bounds) + 100 THEN b.x - b.width
    ELSE b.x

\* the vertical half of the clamp: the new bounds.y
ClampY(b) ==
    IF Top(b) < Top(bounds) - 100 THEN Top(bounds)
    ELSE IF Bottom(b) > Bottom(bounds) + 100 THEN Bottom(bounds) - b.height
    ELSE b.y

ClampLabel(l) ==
    [l EXCEPT !.bounds = Rect(ClampX(l.bounds), ClampY(l.bounds),
                              l.bounds.width, l.bounds.height)]

\* "Ensure labels fit inside bounds": the clamp over allLabels
ClampAll(ls) == AsList([i \in 1..Len(ls) |-> ClampLabel(ls[i])])

\* a priority that swaps the weights of hover and focus
labelPrioritySwapped(l, rs) ==
    l.fontSize
    + (IF rs[l.series].isHover THEN 100000 ELSE 0)
    + (IF rs[l.series].isFocus THEN 1000000 ELSE 0)
    + (IF l.isEnd THEN 10000 ELSE 0)

\* labelPriority, rs the render list the labels refer to
labelPriority(l, rs) ==
    l.fontSize
    + (IF rs[l.series].isHover THEN 1000000 ELSE 0)
    + (IF rs[l.series].isFocus THEN 100000 ELSE 0)
    + (IF l.isEnd THEN 10000 ELSE 0)

\* a priority order that forgets the minus sign: lowest priority first
PriorityOrderAscending(ls, rs) ==
    SortedIndices(AsList([i \in 1..Len(ls) |-> labelPriority(ls[i], rs)]))

\* labelsByPriority, as indices into allLabels
PriorityOrder(ls, rs) ==
    SortedIndices(AsList([i \in 1..Len(ls) |-> -labelPriority(ls[i], rs)]))

\* an inner loop that forgets to skip a hidden l1
HiddenByEvenIfHidden(i, order, ls, hidden) ==
    {order[j] : j \in {j \in (i + 1)..Len(order) :
        /\ order[j] \notin hidden
        /\ Intersects(ls[order[i]].bounds, ls[order[j]].bounds)}}

\* an inner loop that stops at the first label it hides
HiddenByFirstOnly(i, order, ls, hidden) ==
    LET hits == {j \in (i + 1)..Len(order) :
                    /\ order[j] \notin hidden
                    /\ Intersects(ls[order[i]].bounds, ls[order[j]].bounds)}
    IN  IF order[i] \in hidden \/ hits = {} THEN {}
        ELSE {order[CHOOSE j \in hits : \A k \in hits : j <= k]}

\* the labels the inner loop hides for l1 = ls[order[i]], given those hidden so far
HiddenBy(i, order, ls, hidden) ==
    IF order[i] \in hidden THEN {}
    ELSE {order[j] : j \in {j \in (i + 1)..Len(order) :
              /\ order[j] \notin hidden
              /\ Intersects(ls[order[i]].bounds, ls[order[j]].bounds)}}

RECURSIVE CollideFrom(_, _, _, _)
\* the outer loop from position i on: the set of hidden labels at its end
CollideFrom(i, order, ls, hidden) ==
    IF i > Len(order) THEN hidden
    ELSE CollideFrom(i + 1, order, ls, hidden \cup HiddenBy(i, order, ls, hidden))

\* "Main collision detection": allLabels with isHidden set
CollisionPass(ls, rs) ==
    LET hidden == CollideFrom(1, PriorityOrder(ls, rs), ls, {})
    IN  AsList([i \in 1..Len(ls) |-> [ls[i] EXCEPT !.isHidden = (i \in hidden)]])

\* renderData: the render list and, flattened, the labels of its series
renderData ==
    LET rs == FlaggedSeries
        clamped == ClampAll(SynthesizedLabels)
    IN  [series |-> rs, labels |-> CollisionPass(clamped, rs)]

\* series.allLabels of the series at position si
AllLabelsOf(ls, si) == SelectSeq(ls, LAMBDA l : l.series = si)

backgroundGroups == SelectSeq(renderData.series, LAMBDA g : ~g.isForeground)

foregroundGroups == SelectSeq(renderData.series, LAMBDA g : g.isForeground)

(***************************************************************************)
(* Nearest series (onMouseMove).  A distance is an exact fraction of       *)
(* squared pixels; the minimum of no distance is undefined.                *)
(***************************************************************************)
Frac(n, d) == [def |-> TRUE, num |-> n, den |-> d]

Undefined == [def |-> FALSE, num |-> 0, den |-> 1]

\* a < b for defined fractions with positive denominators
FracLess(a, b) ==
    LET qa == a.num \div a.den
        qb == b.num \div b.den
    IN  qa < qb \/ (qa = qb /\ (a.num % a.den) * b.den < (b.num % b.den) * a.den)

\* the order _.sortBy sorts by: undefined after every number
KeyLess(a, b) == a.def /\ (~b.def \/ FracLess(a, b))

\* _.min of a sequence of distances
MinOf(ds) ==
    IF ds = <<>> THEN Undefined
    ELSE ds[CHOOSE i \in 1..Len(ds) : \A j \in 1..Len(ds) : ~FracLess(ds[j], ds[i])]

\* whole pixels of a position
Px(v) == Vec(v.x \div 100, v.y \div 100)

\* Vector2.distanceSq, on whole pixels
DistanceSq(a, b) == (a.x - b.x) * (a.x - b.x) + (a.y - b.y) * (a.y - b.y)

\* Vector2.distanceFromPointToLineSq(p, v, w): squared distance from p to the
\* segment v-w
DistanceFromPointToLineSq(p, v, w) ==
    LET l2 == DistanceSq(v, w)
        dot == (p.x - v.x) * (w.x - v.x) + (p.y - v.y) * (w.y - v.y)
    IN  IF l2 = 0 \/ dot <= 0 THEN Frac(DistanceSq(p, v), 1)
        ELSE IF dot >= l2 THEN Frac(DistanceSq(p, w), 1)
        ELSE Frac(DistanceSq(p, v) * l2 - dot * dot, l2)

\* an iteratee that measures to the values even when the chart is connected
MouseDistancePoints(series, mouse) ==
    MinOf(AsList([i \in 1..Len(series.values) |->
        Frac(DistanceSq(Px(series.values[i].position), Px(mouse)), 1)]))

\* the iteratee of the sort in onMouseMove
MouseDistance(series, mouse) ==
    LET n == Len(series.values)
    IN  IF isConnected
        THEN MinOf(AsList([i \in 1..(n - 1) |->
                 DistanceFromPointToLineSq(Px(mouse), Px(series.values[i].position),
                                           Px(series.values[i + 1].position))]))
        ELSE MinOf(AsList([i \in 1..n |->
                 Frac(DistanceSq(Px(series.values[i].position), Px(mouse)), 1)]))

\* _.sortBy(this.renderData, distance)[0]: 0 when the list is empty, else the
\* position in the render list of the first series of the sorted list
ClosestSeries(rs, mouse) ==
    IF rs = <<>> THEN 0
    ELSE LET key == AsList([i \in 1..Len(rs) |-> MouseDistance(rs[i], mouse)])
             before(k, j) == KeyLess(key[k], key[j]) \/ (~KeyLess(key[j], key[k]) /\ k < j)
         IN  CHOOSE j \in 1..Len(rs) : \A k \in 1..Len(rs) : k = j \/ before(j, k)

\* _.find(this.data, d => d.key == key), as a sequence of at most one series
FindDatum(key) ==
    LET hits == {i \in 1..Len(data) : data[i].key = key}
    IN  IF hits = {} THEN <<>>
        ELSE <<data[CHOOSE i \in hits : \A j \in hits : i <= j]>>

(***************************************************************************)
(* The inputs the model draws from                                         *)
(***************************************************************************)
Keys == {"a", "b"}

\* the entity names, of different lengths
LabelOf(key) == IF key = "a" THEN "Ab" ELSE "Abcdef"

\* series sizes: 0 is an absent size
SeriesSizes == {0, 3}

\* data-space points: near the left edge, near the top, near the right edge
DataPoints == { <<1, 10>>, <<20, 23>>, <<39, 10>> }

\* pointer positions: between the left and right points, on the segment from
\* the left to the top point, and on the right point
MousePoints == { Vec(4000, 3000), Vec(2100, 1700), Vec(7800, 3000) }

\* paths of n points that neither stay on a point nor turn straight back
RECURSIVE Paths(_)
Paths(n) ==
    IF n = 1 THEN {<<p>> : p \in DataPoints}
    ELSE {Append(q, p) : q \in Paths(n - 1), p \in DataPoints}
            \ ({Append(q, q[n - 1]) : q \in Paths(n - 1)}
               \cup {Append(q, q[n - 2]) : q \in {q \in Paths(n - 1) : n > 2}})

\* the k-th value of a series is of the year 2000 + k
Value(p, k, size) ==
    [x |-> p[1], y |-> p[2], size |-> size, year |-> 2000 + k,
     time |-> [x |-> 2000 + k, y |-> 2000 + k]]

Series(key, size, path) ==
    [key |-> key, label |-> LabelOf(key), size |-> size,
     values |-> AsList([k \in 1..Len(path) |-> Value(path[k], k, size)])]

SeriesOf(key, maxLen) ==
    {Series(key, size, path) :
        size \in SeriesSizes, path \in UNION {Paths(n) : n \in 1..maxLen}}

\* the series lists over the given series of "a" and of "b"
Datasets(as, bs) ==
    {<<>>} \cup {<<x>> : x \in as \cup bs} \cup {<<x, y>> : x \in as, y \in bs}

\* the series lists the layout is computed for
LayoutDatasets == Datasets(SeriesOf("a", MaxValues), SeriesOf("b", MaxValues))

\* the series lists the interaction runs on: single points and single segments
\* that start at the left ("a") or right ("b") point
PointerSeries(key) ==
    {x \in SeriesOf(key, 2) :
        /\ x.size = (IF key = "a" THEN 0 ELSE 3)
        /\ x.values[1].x = (IF key = "a" THEN 1 ELSE 39)
        /\ Len(x.values) = 2 => x.values[2].x = 20}

PointerDatasets == Datasets(PointerSeries("a"), PointerSeries("b"))

(***************************************************************************)
(* The component: pointer events, animation frames and changes of props    *)
(***************************************************************************)
Call(fn, arg) == [fn |-> fn, arg |-> arg]

\* a scheduler that keeps only the latest callback
RequestLatestOnly(queue, cb) == <<cb>>

\* requestAnimationFrame(cb): cb joins the callbacks of the next frame
RequestAnimationFrame(queue, cb) == Append(queue, cb)

Init ==
    /\ data \in PointerDatasets
    /\ propsHoverKeys = {}
    /\ focusKeys = {}
    /\ hoverKey = Null
    /\ rafQueue = <<>>
    /\ frame = <<>>
    /\ invoked = <<>>
    /\ received = 0
    /\ frameEvents = 0
    /\ hoverWrites = 0
    /\ pass = "idle"
    /\ labels = <<>>
    /\ cursor = 0

\* the handler only schedules its callback, which keeps the event
onMouseMove ==
    /\ frame = <<>>
    /\ Len(rafQueue) < MaxPending
    /\ \E m \in MousePoints :
          rafQueue' = RequestAnimationFrame(rafQueue, [type |-> "move", mouse |-> m])
    /\ received' = received + 1
    /\ invoked' = <<>>
    /\ UNCHANGED <<data, propsHoverKeys, focusKeys, hoverKey, frame, frameEvents,
                   hoverWrites, pass, labels, cursor>>

onMouseLeave ==
    /\ frame = <<>>
    /\ Len(rafQueue) < MaxPending
    /\ rafQueue' = RequestAnimationFrame(rafQueue, [type |-> "leave", mouse |-> VecZero])
    /\ received' = received + 1
    /\ invoked' = <<>>
    /\ UNCHANGED <<data, propsHoverKeys, focusKeys, hoverKey, frame, frameEvents,
                   hoverWrites, pass, labels, cursor>>

\* what onClick invokes
ClickCalls == IF hoverKey = Null THEN <<>> ELSE <<Call("onSelectEntity", hoverKey)>>

onClick ==
    /\ frame = <<>>
    /\ invoked' = ClickCalls
    /\ UNCHANGED <<data, propsHoverKeys, focusKeys, hoverKey, rafQueue, frame, received,
                   frameEvents, hoverWrites, pass, labels, cursor>>

\* the browser starts an animation frame: it takes the callbacks scheduled so far
BeginFrame ==
    /\ frame = <<>>
    /\ rafQueue # <<>>
    /\ frame' = rafQueue
    /\ rafQueue' = <<>>
    /\ frameEvents' = received
    /\ received' = 0
    /\ hoverWrites' = 0
    /\ invoked' = <<>>
    /\ UNCHANGED <<data, propsHoverKeys, focusKeys, hoverKey, pass, labels, cursor>>

\* the hover key the callback of onMouseMove writes; of this.renderData it reads
\* the series list, their keys and their values
HoverKeyAt(mouse) ==
    LET closestSeries == ClosestSeries(FlaggedSeries, mouse)
    IN  IF closestSeries # 0 THEN FlaggedSeries[closestSeries].key ELSE Null

\* the callback of onMouseLeave
LeaveCallback ==
    /\ hoverKey' = Null
    /\ invoked' = <<Call("onMouseLeave", Null)>>

\* the callback of onMouseMove
MoveCallback(mouse) ==
    LET key == HoverKeyAt(mouse)
        datum == FindDatum(key)
    IN  /\ hoverKey' = key
        /\ invoked' = IF datum = <<>> THEN <<>> ELSE <<Call("onMouseOver", datum[1])>>

\* the frame runs its next callback
RunCallback ==
    /\ frame # <<>>
    /\ IF Head(frame).type = "leave" THEN LeaveCallback
       ELSE MoveCallback(Head(frame).mouse)
    /\ hoverWrites' = hoverWrites + 1
    /\ frame' = Tail(frame)
    /\ UNCHANGED <<data, propsHoverKeys, focusKeys, rafQueue, received, frameEvents,
                   pass, labels, cursor>>

\* the parent renders the component with another series list
SetData ==
    /\ frame = <<>>
    /\ \E d \in PointerDatasets : data' = d
    /\ invoked' = <<>>
    /\ UNCHANGED <<propsHoverKeys, focusKeys, hoverKey, rafQueue, frame, received,
                   frameEvents, hoverWrites, pass, labels, cursor>>

\* the parent renders the component with other hover or focus keys
SetKeys ==
    /\ frame = <<>>
    /\ \E h \in SUBSET Keys, f \in SUBSET Keys :
          propsHoverKeys' = h /\ focusKeys' = f
    /\ invoked' = <<>>
    /\ UNCHANGED <<data, hoverKey, rafQueue, frame, received, frameEvents, hoverWrites,
                   pass, labels, cursor>>

Next ==
    \/ onMouseMove
    \/ onMouseLeave
    \/ onClick
    \/ BeginFrame
    \/ RunCallback
    \/ SetData
    \/ SetKeys

Spec == Init /\ [][Next]_vars

(***************************************************************************)
(* One recomputation of renderData, pass by pass, over the layout inputs   *)
(***************************************************************************)
RenderInit ==
    /\ data \in LayoutDatasets
    /\ propsHoverKeys \in SUBSET Keys
    /\ focusKeys \in SUBSET Keys
    /\ hoverKey = Null
    /\ rafQueue = <<>>
    /\ frame = <<>>
    /\ invoked = <<>>
    /\ received = 0
    /\ frameEvents = 0
    /\ hoverWrites = 0
    /\ pass = "flags"
    /\ labels = <<>>
    /\ cursor = 0

Inputs == <<data, propsHoverKeys, focusKeys, hoverKey, rafQueue, frame, invoked,
            received, frameEvents, hoverWrites>>

\* the two _.each passes: the flags, then the labels of every series
MakeLabels ==
    /\ pass = "flags"
    /\ labels' = SynthesizedLabels
    /\ pass' = "labelled"
    /\ UNCHANGED <<Inputs, cursor>>

\* "Ensure labels fit inside bounds"
ClampPass ==
    /\ pass = "labelled"
    /\ labels' = ClampAll(labels)
    /\ pass' = "clamped"
    /\ UNCHANGED <<Inputs, cursor>>

\* "Main collision detection"
CollidePass ==
    /\ pass = "clamped"
    /\ labels' = CollisionPass(labels, FlaggedSeries)
    /\ pass' = "resolved"
    /\ cursor' = Len(labels)
    /\ UNCHANGED Inputs

RenderNext == MakeLabels \/ ClampPass \/ CollidePass

RenderSpec == RenderInit /\ [][RenderNext]_vars

(***************************************************************************)
(* One recomputation of renderData over crowded charts: up to three series *)
(* whose points coincide, so that their labels overlap pairwise            *)
(***************************************************************************)
CrowdKeys == {"a", "b", "c"}

\* series sizes that give three different font sizes
CrowdSizes == {0, 2, 4}

\* a point at the left, a point at the top, and the segment between them
CrowdPaths == { <<(<<1, 10>>)>>, <<(<<20, 23>>)>>, <<(<<1, 10>>), (<<20, 23>>)>> }

CrowdSeries(key) == {Series(key, size, path) : size \in CrowdSizes, path \in CrowdPaths}

\* the series lists of at most one series per key, in key order
CrowdDatasets ==
    LET opt(key) == {<<>>} \cup {<<x>> : x \in CrowdSeries(key)}
    IN  {x \o y \o z : x \in opt("a"), y \in opt("b"), z \in opt("c")}

CrowdInit ==
    /\ data \in CrowdDatasets
    /\ propsHoverKeys \in SUBSET CrowdKeys
    /\ focusKeys \in SUBSET CrowdKeys
    /\ hoverKey = Null
    /\ rafQueue = <<>>
    /\ frame = <<>>
    /\ invoked = <<>>
    /\ received = 0
    /\ frameEvents = 0
    /\ hoverWrites = 0
    /\ pass = "flags"
    /\ labels = <<>>
    /\ cursor = 0

CrowdSpec == CrowdInit /\ [][RenderNext]_vars

(***************************************************************************)
(* The collision pass of renderData, one iteration of its outer loop at a  *)
(* time, over crowded charts                                               *)
(***************************************************************************)
\* the labels of ls that are hidden, as indices
HiddenSet(ls) == {i \in 1..Len(ls) : ls[i].isHidden}

\* one iteration of the outer loop: l1 = labelsByPriority[cursor] (from 0);
\* every l2 the inner loop finds gets isHidden = true
CollideStep ==
    /\ pass = "clamped"
    /\ cursor < Len(labels)
    /\ LET order == PriorityOrder(labels, FlaggedSeries)
           hits == HiddenBy(cursor + 1, order, labels, HiddenSet(labels))
       IN  labels' = AsList([i \in 1..Len(labels) |->
                        [labels[i] EXCEPT !.isHidden = IF i \in hits THEN TRUE ELSE @]])
    /\ cursor' = cursor + 1
    /\ UNCHANGED <<Inputs, pass>>

\* the outer loop ends
CollideDone ==
    /\ pass = "clamped"
    /\ cursor = Len(labels)
    /\ pass' = "resolved"
    /\ UNCHANGED <<Inputs, labels, cursor>>

StepNext == MakeLabels \/ ClampPass \/ CollideStep \/ CollideDone

StepSpec == CrowdInit /\ [][StepNext]_vars

(***************************************************************************)
(* Properties of the layout (RenderSpec)                                   *)
(***************************************************************************)
\* the priority of a label of the series with the given key, as the design
\* states it: fontSize + 10000 isHover + 1000 isFocus + 100 isEnd
StatedPriority(l, key) ==
    l.fontSize
    + (IF key \in propsHoverKeys \cup {hoverKey} THEN 1000000 ELSE 0)
    + (IF key \in focusKeys THEN 100000 ELSE 0)
    + (IF l.isEnd THEN 10000 ELSE 0)

\* the stated priorities of the labels
StatedPriorities ==
    LET rs == FlaggedSeries
    IN  AsList([i \in 1..Len(labels) |-> StatedPriority(labels[i], rs[labels[i].series].key)])

LabelIndices == 1..Len(labels)

\* the pairs <<i, j>> of labels whose boxes intersect, i of higher priority than j
OutrankingPairs ==
    LET prio == StatedPriorities
    IN  {p \in LabelIndices \X LabelIndices :
            /\ prio[p[1]] > prio[p[2]]
            /\ Intersects(labels[p[1]].bounds, labels[p[2]].bounds)}

\* C1 as stated: after the collision pass, of every intersecting pair of labels
\* with different priorities the lower one is hidden and the higher one is not.
C1_LowerHiddenHigherVisible ==
    pass = "resolved" =>
        \A p \in OutrankingPairs : labels[p[2]].isHidden /\ ~labels[p[1]].isHidden

\* label i is hidden on account of a visible label of no lower priority
OutrankedByVisible(i) ==
    LET prio == StatedPriorities
    IN  \E k \in LabelIndices \ {i} :
            /\ ~labels[k].isHidden
            /\ prio[k] >= prio[i]
            /\ Intersects(labels[k].bounds, labels[i].bounds)

\* C1 amended: after the collision pass, of every intersecting pair of labels
\* with different priorities the lower one is hidden whenever the higher one is
\* not hidden itself (the two are never both visible), and the higher one is
\* hidden only when a visible label of no lower priority overlaps it.
C1_LowerHiddenIfHigherVisible ==
    pass = "resolved" =>
        \A p \in OutrankingPairs :
            /\ ~labels[p[1]].isHidden => labels[p[2]].isHidden
            /\ labels[p[1]].isHidden => OutrankedByVisible(p[1])

\* C1 witness: a visible label has hidden an intersecting label of lower priority
C1_Witness ==
    /\ pass = "resolved"
    /\ \E p \in OutrankingPairs : ~labels[p[1]].isHidden /\ labels[p[2]].isHidden

\* a box lies inside the plot bounds, up to the tolerance of one pixel
InsidePlot(b) ==
    /\ Left(b) >= Left(bounds) - 100
    /\ Right(b) <= Right(bounds) + 100
    /\ Top(b) >= Top(bounds) - 100
    /\ Bottom(b) <= Bottom(bounds) + 100

\* C2 as stated: after the bounds clamp every label's box lies inside the plot
\* bounds, up to the tolerance of one pixel.
C2_ClampedInsidePlot ==
    pass \in {"clamped", "resolved"} =>
        \A i \in LabelIndices : InsidePlot(labels[i].bounds)

\* C3 as stated: the bounds clamp applied to clamped labels moves no label.
C3_ClampIdempotent ==
    pass = "clamped" =>
        \A i \in LabelIndices :
            /\ ClampLabel(labels[i]).bounds.x = labels[i].bounds.x
            /\ ClampLabel(labels[i]).bounds.y = labels[i].bounds.y

\* the keys of the foreground series: hovered (by props or by the pointer) or focused
HoveredKeys == propsHoverKeys \cup (IF hoverKey = Null THEN {} ELSE {hoverKey})

ForegroundKeys == HoveredKeys \cup focusKeys

\* the input series with the given key
DatumOf(key) == data[CHOOSE i \in 1..Len(data) : data[i].key = key]

\* how many of the labels ls satisfy Is
CountLabels(ls, Is(_)) == Cardinality({k \in 1..Len(ls) : Is(ls[k])})

IsStartLabel(l) == l.isStart

IsMidLabel(l) == l.isMid

IsEndLabel(l) == l.isEnd

\* C5: every render series has exactly one end label, whose text is the series
\* label; it has a start label or mid labels only if it is foreground and has at
\* least 2 values; a series of one value has its end label and no other.
C5_LabelKinds ==
    pass # "flags" =>
        LET rs == FlaggedSeries
        IN  /\ Len(rs) = Len(data)
            /\ \A si \in 1..Len(rs) :
                  LET ls == AllLabelsOf(labels, si)
                      d == DatumOf(rs[si].key)
                  IN  /\ CountLabels(ls, IsEndLabel) = 1
                      /\ \A k \in 1..Len(ls) : ls[k].isEnd => ls[k].text = d.label
                      /\ CountLabels(ls, IsStartLabel) <= 1
                      /\ (CountLabels(ls, IsStartLabel) + CountLabels(ls, IsMidLabel) > 0
                            => d.key \in ForegroundKeys /\ Len(d.values) >= 2)
                      /\ (Len(d.values) = 1 => Len(ls) = 1)

\* C5 witness: a foreground series of one value has its end label only, beside a
\* series that has a start label
C5_Witness ==
    /\ pass = "resolved"
    /\ \E si \in 1..Len(FlaggedSeries) :
          /\ Len(FlaggedSeries[si].values) = 1
          /\ FlaggedSeries[si].key \in ForegroundKeys
          /\ CountLabels(AllLabelsOf(labels, si), IsEndLabel) = 1
          /\ Len(AllLabelsOf(labels, si)) = 1
    /\ \E k \in LabelIndices : labels[k].isStart

\* the size of a render series before the adjustment of a hovered series
SizeBeforeHover(g) == IF g.key \in HoveredKeys THEN g.size - 100 ELSE g.size

\* C8 as stated: the render list renderData returns, and backgroundGroups, are
\* in ascending order of series size.
C8_AscendingBySize ==
    pass = "resolved" =>
        LET rs == renderData.series
            bg == backgroundGroups
        IN  /\ \A i, j \in 1..Len(rs) : i < j => rs[i].size <= rs[j].size
            /\ \A i, j \in 1..Len(bg) : i < j => bg[i].size <= bg[j].size

\* C8 amended: the render list renderData returns, and backgroundGroups, are in
\* descending order of series size, the size taken before the adjustment of a
\* hovered series: a larger series is drawn before (underneath) a smaller one.
C8_DescendingBySizeBeforeHover ==
    pass = "resolved" =>
        LET rs == renderData.series
            bg == backgroundGroups
        IN  /\ \A i, j \in 1..Len(rs) :
                  i < j => SizeBeforeHover(rs[i]) >= SizeBeforeHover(rs[j])
            /\ \A i, j \in 1..Len(bg) : i < j => bg[i].size >= bg[j].size

\* C8 witness: two background series of different sizes, the larger one first
C8_Witness ==
    /\ pass = "resolved"
    /\ Len(backgroundGroups) = 2
    /\ backgroundGroups[1].size > backgroundGroups[2].size

\* subtle-foreground mode as the design states it
StatedSubtle ==
    Cardinality(focusKeys) > 1 /\ \E i \in 1..Len(data) : Len(data[i].values) > 2

\* the number of mid labels the design gives a series of n values with this key
StatedMidLabels(key, n) ==
    IF /\ key \in ForegroundKeys
       /\ n >= 3
       /\ (key \in HoveredKeys \/ ~StatedSubtle)
    THEN n - 2 ELSE 0

\* C10: a series has mid labels exactly when it is foreground, has at least 3
\* values and is hovered or the chart is not in subtle-foreground mode, and then
\* one per interior value; subtle-foreground mode is more than one focus key and
\* a series of more than 2 values.
C10_MidLabels ==
    pass # "flags" =>
        LET rs == FlaggedSeries
        IN  /\ isSubtleForeground <=> StatedSubtle
            /\ \A si \in 1..Len(rs) :
                  CountLabels(AllLabelsOf(labels, si), IsMidLabel)
                      = StatedMidLabels(rs[si].key, Len(DatumOf(rs[si].key).values))

\* C10 witness: in subtle-foreground mode a hovered series has its mid labels and
\* a focused series of 3 values has none
C10_Witness ==
    /\ pass = "resolved"
    /\ StatedSubtle
    /\ \E si, sj \in 1..Len(FlaggedSeries) :
          /\ FlaggedSeries[si].key \in HoveredKeys
          /\ CountLabels(AllLabelsOf(labels, si), IsMidLabel) >= 1
          /\ FlaggedSeries[sj].key \in focusKeys \ HoveredKeys
          /\ Len(FlaggedSeries[sj].values) >= 3
          /\ CountLabels(AllLabelsOf(labels, sj), IsMidLabel) = 0

(***************************************************************************)
(* Properties of the interaction (Spec)                                    *)
(***************************************************************************)
DataKeys == {data[i].key : i \in 1..Len(data)}

\* C4 as stated: the hover key is null or the key of a series of the current
\* input series list.
C4_HoverKeyInData == hoverKey = Null \/ hoverKey \in DataKeys

\* C6 as stated: during one frame the hover key is written at most once,
\* however many pointer events came before it.
C6_AtMostOneWritePerFrame == hoverWrites <= 1

\* C6 amended: when a frame has run, the hover key has been written once for
\* each pointer event received before the frame: no event is dropped.
C6_OneWritePerEvent == frame = <<>> => hoverWrites = frameEvents

\* C6 witness: a frame that followed two pointer events has written twice
C6_Witness == frame = <<>> /\ frameEvents = 2 /\ hoverWrites = 2

\* C7 as stated: no handler changes the hover key or invokes an external
\* callback within the event, only a frame does; and a select callback is
\* invoked only when no earlier pointer event is still waiting for its frame.
C7_HandlersDeferred ==
    [][/\ (frame = <<>> /\ frame' = <<>>) => (hoverKey' = hoverKey /\ invoked' = <<>>)
       /\ (invoked' # <<>> /\ invoked'[1].fn = "onSelectEntity") => rafQueue = <<>>]_vars

\* the distances the design takes the minimum of for one series: to its
\* segments when any series has more than one value, to its values otherwise
StatedDistances(g, mouse) ==
    LET n == Len(g.values)
        pos(i) == Px(g.values[i].position)
    IN  IF \E i \in 1..Len(data) : Len(data[i].values) > 1
        THEN {DistanceFromPointToLineSq(Px(mouse), pos(i), pos(i + 1)) : i \in 1..(n - 1)}
        ELSE {Frac(DistanceSq(pos(i), Px(mouse)), 1) : i \in 1..n}

\* the series at position j of the render list is at the minimum distance
AtMinimum(rs, j, mouse) ==
    \E c \in StatedDistances(rs[j], mouse) :
        \A k \in 1..Len(rs) : \A e \in StatedDistances(rs[k], mouse) : ~FracLess(e, c)

\* the key of the first series of the render list at the minimum distance
StatedHoverKey(mouse) ==
    LET rs == renderData.series
        nearest == {j \in 1..Len(rs) : AtMinimum(rs, j, mouse)}
    IN  IF rs = <<>> THEN Null
        ELSE rs[CHOOSE j \in nearest : \A k \in nearest : j <= k].key

\* C9: the callback of onMouseMove sets the hover key to the key of the first
\* series in render order at the minimum distance to the pointer, to null when
\* there is no series, and invokes onMouseOver with the input series of that key.
C9_NearestSeriesHovered ==
    [][(frame # <<>> /\ Head(frame).type = "move") =>
          LET key == StatedHoverKey(Head(frame).mouse)
          IN  /\ hoverKey' = key
              /\ invoked' = IF key = Null THEN <<>>
                            ELSE <<Call("onMouseOver", DatumOf(key))>>]_vars

\* C9 witness: the pointer on a segment of the second series in render order
\* has selected that series, and onMouseOver has received it
C9_Witness ==
    /\ Len(data) = 2
    /\ \A i \in 1..2 : Len(data[i].values) = 2
    /\ FlaggedSeries[2].key = "a"
    /\ hoverKey = "a"
    /\ invoked = <<Call("onMouseOver", DatumOf("a"))>>

(***************************************************************************)
(* Properties of the layers and of the collision pass (RenderSpec)         *)
(***************************************************************************)
\* the keys of a list of render series
KeysOf(groups) == {groups[i].key : i \in 1..Len(groups)}

\* every render series is in exactly one of the two groups, in the foreground
\* one iff its key is a hover key or a focus key
GroupsPartition ==
    LET rs == FlaggedSeries
        fg == foregroundGroups
        bg == backgroundGroups
    IN  /\ Len(fg) + Len(bg) = Len(rs)
        /\ KeysOf(fg) \cap KeysOf(bg) = {}
        /\ KeysOf(fg) \cup KeysOf(bg) = KeysOf(rs)
        /\ KeysOf(fg) = KeysOf(rs) \cap ForegroundKeys

\* C11 as stated: isLayerMode is true exactly when foregroundGroups is not
\* empty, and every render series is in exactly one of backgroundGroups and
\* foregroundGroups, in foregroundGroups iff its key is hovered or focused.
C11_LayerModeIffForeground ==
    /\ isLayerMode <=> foregroundGroups # <<>>
    /\ GroupsPartition

\* label i comes before label j in the priority order: priority descending,
\* ties in the order of allLabels
Precedes(i, j) ==
    LET prio == StatedPriorities
    IN  prio[i] > prio[j] \/ (prio[i] = prio[j] /\ i < j)

\* the labels of S intersect pairwise
PairwiseIntersecting(S) ==
    \A i, j \in S : i # j => Intersects(labels[i].bounds, labels[j].bounds)

\* the labels of S have different priorities
DistinctPriorities(S) ==
    LET prio == StatedPriorities
    IN  \A i, j \in S : i # j => prio[i] # prio[j]

\* C12: after the collision pass no two visible labels intersect; of pairwise
\* intersecting labels at most one is visible; when there are exactly three
\* labels, of different priorities and intersecting pairwise, the one of highest
\* priority is visible and the other two are hidden; the first label of the
\* priority order is never hidden.
C12_NoVisibleOverlap ==
    pass = "resolved" =>
        /\ \A i, j \in LabelIndices :
              (i # j /\ ~labels[i].isHidden /\ ~labels[j].isHidden)
                  => ~Intersects(labels[i].bounds, labels[j].bounds)
        /\ \A S \in SUBSET LabelIndices :
              PairwiseIntersecting(S)
                  => Cardinality({i \in S : ~labels[i].isHidden}) <= 1
        /\ (Len(labels) = 3 /\ PairwiseIntersecting(1..3) /\ DistinctPriorities(1..3))
              => \A i \in 1..3 :
                    labels[i].isHidden <=> \E j \in 1..3 : Precedes(j, i) /\ j # i
        /\ \A i \in LabelIndices :
              (\A j \in LabelIndices : j # i => Precedes(i, j)) => ~labels[i].isHidden

\* C12 witness: three end labels of the same tier and of different font sizes
\* overlap pairwise; the largest is visible and the two others are hidden
C12_Witness ==
    /\ pass = "resolved"
    /\ Len(labels) = 3
    /\ PairwiseIntersecting(1..3)
    /\ DistinctPriorities(1..3)
    /\ \A i \in 1..3 : labels[i].isEnd /\ ~FlaggedSeries[i].isForeground
    /\ \E i \in 1..3 :
          /\ ~labels[i].isHidden
          /\ \A j \in 1..3 : j # i => labels[j].isHidden /\ Precedes(i, j)

\* the number of a flag
Bit(b) == IF b THEN 1 ELSE 0

\* the rank of a label as the design states it: (series is hovered, series is
\* focused, label is an end label, fontSize)
StatedRank(l, key) ==
    <<Bit(key \in HoveredKeys), Bit(key \in focusKeys), Bit(l.isEnd), l.fontSize>>

\* r1 is greater than r2 in the lexicographic order
LexGreater(r1, r2) ==
    \E k \in 1..Len(r1) : r1[k] > r2[k] /\ \A m \in 1..(k - 1) : r1[m] = r2[m]

\* labelPriority of the labels, and their stated ranks
Priorities ==
    LET rs == FlaggedSeries
    IN  AsList([i \in 1..Len(labels) |-> labelPriority(labels[i], rs)])

StatedRanks ==
    LET rs == FlaggedSeries
    IN  AsList([i \in 1..Len(labels) |-> StatedRank(labels[i], rs[labels[i].series].key)])

StatedMidLabelPos(series, k) ==
    LET v == series.values[k]
        prevPos == series.values[k - 1].position
        nextPos == series.values[k + 1].position
        prevSegment == VecSubtract(v.position, prevPos)
        nextSegment == VecSubtract(nextPos, v.position)
        normals == Normals(NormalizeTimes(VecAdd(prevSegment, nextSegment), 500))
        spots == AsList([n \in 1..2 |-> VecAdd(v.position, normals[n])])
        sum == AsList([n \in 1..2 |->
                   Distance(spots[n], prevPos) + Distance(spots[n], nextPos)])
    IN  IF sum[2] > sum[1] THEN spots[2] ELSE spots[1]

\* the mid labels among the labels of the series at position si
MidLabelsOf(si) == SelectSeq(AllLabelsOf(labels, si), IsMidLabel)

\* C14 as stated: the mid label of an interior value v[k] is anchored at v[k],
\* carries its year, and is placed from the segments v[k]-v[k-1] and
\* v[k+1]-v[k], on the perpendicular candidate with the larger summed distance
\* to v[k-1] and v[k+1].
C14_MidLabelNeighbours ==
    pass = "labelled" =>
        LET rs == FlaggedSeries
        IN  \A si \in 1..Len(rs) :
                LET mids == MidLabelsOf(si)
                IN  \A m \in 1..Len(mids) :
                        LET v == rs[si].values[m + 1]
                            text == ToString(v.time.y)
                        IN  /\ mids[m].pos = v.position
                            /\ mids[m].text = text
                            /\ mids[m].bounds =
                                  YearBounds(text, StatedMidLabelPos(rs[si], m + 1),
                                             v.position, mids[m].fontSize)

\* label i intersects no other label
Isolated(i) ==
    \A j \in LabelIndices : j # i => ~Intersects(labels[i].bounds, labels[j].bounds)

\* label i intersects a visible label that precedes it in the priority order
HiddenWithCause(i) ==
    \E j \in LabelIndices :
        /\ j # i
        /\ ~labels[j].isHidden
        /\ Precedes(j, i)
        /\ Intersects(labels[j].bounds, labels[i].bounds)

\* a step hides labels and shows none again
HidingMonotone ==
    \A i \in LabelIndices : (i <= Len(labels') /\ labels[i].isHidden) => labels'[i].isHidden

\* at the end of the pass every hidden label has a cause; a label that
\* intersects no other label is not hidden, during the pass or after it
HidingJustified ==
    /\ pass = "resolved" => \A i \in LabelIndices : labels[i].isHidden => HiddenWithCause(i)
    /\ \A i \in LabelIndices : Isolated(i) => ~labels[i].isHidden

\* C15: during the collision pass isHidden only changes from unset to true; at
\* the end of the pass every hidden label intersects a visible label that
\* precedes it in the priority order (priority descending, ties in the order
\* of allLabels); a label that intersects no other label is never hidden.
C15_HidingJustifiedMonotone ==
    [][HidingMonotone]_vars /\ []HidingJustified

\* C15 witness: the pass has ended after three or more iterations with a hidden
\* label, which has its cause, beside a visible label that intersects no other
C15_Witness ==
    /\ pass = "resolved"
    /\ cursor = Len(labels)
    /\ cursor >= 3
    /\ \E i \in LabelIndices : labels[i].isHidden /\ HiddenWithCause(i)
    /\ \E i \in LabelIndices : Isolated(i) /\ ~labels[i].isHidden

====
